---- MODULE Spec2Model ----
(***************************************************************************)
(* Bedtime-story refinement controller (src/main.py): the tolerant parser  *)
(* of the judge's reply, the quality-gated refinement loop of              *)
(* story_pipeline and the open-ended human-feedback loop of main.          *)
(*                                                                         *)
(* Texts are sequences of one-character strings.  A Story is opaque to the *)
(* controller, so a story is identified by the position, in the gateway    *)
(* call log, of the call_model invocation that returned it.                *)
(***************************************************************************)
EXTENDS Integers, Sequences, FiniteSets, TLC

VARIABLES
  pc,                 \* position of the thread of control
  error,              \* "" or the kind of the exception that ended the run
  user_request,       \* main / story_pipeline: the request text
  min_score,          \* story_pipeline parameter
  max_rounds,         \* story_pipeline parameter
  verbose,            \* story_pipeline parameter
  story,              \* story_pipeline local: current story
  judge_data,         \* story_pipeline local: current evaluation
  round_idx,          \* story_pipeline local: round counter
  current_story,      \* main local
  current_judge_data, \* main local
  user_feedback,      \* main local: the stripped feedback line
  updated_story,      \* main local
  updated_judge_data, \* main local
  judge_texts,        \* the texts the gateway may answer a judge prompt with
  calls,              \* log of call_model invocations, oldest first
  lines,              \* lines read from the feedback prompt, oldest first
  out,                \* what was printed, oldest first
  raw,                \* parser harness: the raw reply handed to the parser
  parsed              \* parser harness: what parse_judge_response returned

vars == <<pc, error, user_request, min_score, max_rounds, verbose, story, judge_data,
          round_idx, current_story, current_judge_data, user_feedback,
          updated_story, updated_judge_data, judge_texts, calls, lines, out,
          raw, parsed>>

----------------------------------------------------------------------------
(* Texts of the source, character by character *)

K_clarity ==
  <<"c","l","a","r","i","t","y">>
K_age_appropriateness ==
  <<"a","g","e","_","a","p","p","r","o","p","r","i","a","t","e","n","e","s","s">>
K_emotional_safety ==
  <<"e","m","o","t","i","o","n","a","l","_","s","a","f","e","t","y">>
K_creativity ==
  <<"c","r","e","a","t","i","v","i","t","y">>
K_narrative_structure ==
  <<"n","a","r","r","a","t","i","v","e","_","s","t","r","u","c","t","u","r","e">>
K_total_score ==
  <<"t","o","t","a","l","_","s","c","o","r","e">>
K_issues ==
  <<"i","s","s","u","e","s">>
K_suggested_fixes ==
  <<"s","u","g","g","e","s","t","e","d","_","f","i","x","e","s">>
CouldNotParseMsg ==
  <<"C","o","u","l","d"," ","n","o","t"," ","p","a","r","s","e"," ","j","u","d","g","e"," ","r","e","s","p","o","n","s","e"," ","a","s"," ","J","S","O","N",".">>
RegenerateMsg ==
  <<"R","e","g","e","n","e","r","a","t","e"," ","t","h","e"," ","s","t","o","r","y"," ","w","i","t","h"," ","c","l","e","a","r","e","r"," ","s","t","r","u","c","t","u","r","e",","," ","s","i","m","p","l","e","r"," ","l","a","n","g","u","a","g","e",","," ","a","n","d"," ","e","x","p","l","i","c","i","t"," ","m","o","r","a","l",".">>
Reply44 ==
  <<"{","\"","t","o","t","a","l","_","s","c","o","r","e","\"",":","4","4",",","\"","i","s","s","u","e","s","\"",":","[","]","}">>
Reply25 ==
  <<"S","u","r","e","!"," ","{","\"","t","o","t","a","l","_","s","c","o","r","e","\"",":"," ","2","5",","," ","\"","i","s","s","u","e","s","\"",":"," ","[","\"","t","o","o"," ","l","o","n","g","\"","]","}"," ","D","o","n","e",".">>
Reply30 ==
  <<"{","\"","c","l","a","r","i","t","y","\"",":","9",",","\"","t","o","t","a","l","_","s","c","o","r","e","\"",":","3","0","}">>
Reply20 ==
  <<"{","\"","t","o","t","a","l","_","s","c","o","r","e","\"",":","2","0",",","\"","i","s","s","u","e","s","\"",":","[","\"","t","o","o"," ","l","o","n","g","\"","]",",","\"","s","u","g","g","e","s","t","e","d","_","f","i","x","e","s","\"",":","[","]","}">>
ReplySorry ==
  <<"S","o","r","r","y",","," ","I"," ","c","a","n","n","o","t"," ","j","u","d","g","e"," ","t","h","i","s",".">>
ReplyNoTotal ==
  <<"{","\"","i","s","s","u","e","s","\"",":","[","\"","t","o","o"," ","l","o","n","g","\"","]","}">>
ReplyNullTotal ==
  <<"{","\"","t","o","t","a","l","_","s","c","o","r","e","\"",":","n","u","l","l","}">>
ReplyBadIssues ==
  <<"{","\"","t","o","t","a","l","_","s","c","o","r","e","\"",":","4","4",",","\"","i","s","s","u","e","s","\"",":","[","1","]","}">>
Reply30Issues ==
  <<"{","\"","c","l","a","r","i","t","y","\"",":","1",",","\"","t","o","t","a","l","_","s","c","o","r","e","\"",":","3","0",",","\"","i","s","s","u","e","s","\"",":","[","\"","t","o","o"," ","l","o","n","g","\"",",","\"","s","c","a","r","y","\"","]","}">>
Scary ==
  <<"s","c","a","r","y">>
TooLong ==
  <<"t","o","o"," ","l","o","n","g">>
MakeItFunnier ==
  <<"m","a","k","e"," ","i","t"," ","f","u","n","n","i","e","r">>
Shorter ==
  <<" ","s","h","o","r","t","e","r"," ">>
Blank ==
  <<" "," ">>
DragonRequest ==
  <<"a"," ","b","r","a","v","e"," ","d","r","a","g","o","n">>
NoIssuesListed ==
  <<"-"," ","(","n","o"," ","i","s","s","u","e","s"," ","l","i","s","t","e","d",")">>
NoFixesListed ==
  <<"-"," ","(","n","o"," ","f","i","x","e","s"," ","l","i","s","t","e","d",")">>
PyNone ==
  <<"N","o","n","e">>
PyTrue ==
  <<"T","r","u","e">>
PyFalse ==
  <<"F","a","l","s","e">>

\* texts handed to the parser on its own
K_a ==
  <<"a">>
BodyEmptyObject ==
  <<"{","}">>
BodyMember ==
  <<"{","\"","a","\"",":","1","}">>
BodyNested ==
  <<"{","\"","a","\"",":","{","\"","a","\"",":","1","}","}">>
BodyBraceInString ==
  <<"{","\"","a","\"",":","\"","}","{","\"","}">>
BodyUnclosed ==
  <<"{","\"","a","\"",":","1">>
BodyNoColon ==
  <<"{","\"","a","\""," ","1","}">>
BodyTrailingComma ==
  <<"{","\"","a","\"",":","1",",","}">>
BodyTwoObjects ==
  <<"{","}","{","}">>
BodyArray ==
  <<"[","1","]">>
BodyDuplicateKey ==
  <<"{","\"","a","\"",":","1",",","\"","a","\"",":","2","}">>

----------------------------------------------------------------------------
(* JSON values as Python objects: json.loads maps a JSON text to            *)
(* dict / list / str / int / bool / None.                                   *)

JInt(n) == [t |-> "int", v |-> n]
JStr(s) == [t |-> "str", v |-> s]
JBool(b) == [t |-> "bool", v |-> b]
JNone == [t |-> "None", v |-> 0]
JList(l) == [t |-> "list", v |-> l]
JDict(d) == [t |-> "dict", v |-> d]

EmptyDict == [k \in {} |-> JNone]

\* d[k] = v on a Python dict: a later value for the same key replaces the earlier
DictSet(d, k, v) == (k :> v) @@ d

\* dict.get(key, default)
Get(d, key, default) == IF key \in DOMAIN d.v THEN d.v[key] ELSE default

----------------------------------------------------------------------------
(* json.loads, restricted to the grammar the modelled texts can contain:    *)
(* whitespace, objects, arrays, strings with the one-character escapes,     *)
(* integers, true / false / null.  Fractions, exponents, \u escapes and     *)
(* NaN / Infinity do not occur in the texts drawn below.                    *)

WS == {" ", "\t", "\n", "\r"}

Digits == {"0", "1", "2", "3", "4", "5", "6", "7", "8", "9"}

DigitVal(c) ==
  CASE c = "0" -> 0 [] c = "1" -> 1 [] c = "2" -> 2 [] c = "3" -> 3
    [] c = "4" -> 4 [] c = "5" -> 5 [] c = "6" -> 6 [] c = "7" -> 7
    [] c = "8" -> 8 [] c = "9" -> 9

Escapes == {"\"", "\\", "/", "b", "f", "n", "r", "t"}

\* the character an escape stands for ("\\b" stands for the backspace character)
Unescape(c) ==
  CASE c = "n" -> "\n" [] c = "r" -> "\r" [] c = "t" -> "\t"
    [] c = "b" -> "\\b" [] c = "f" -> "\f" [] OTHER -> c

ScanErr == [ok |-> FALSE, val |-> JNone, pos |-> 0]

ScanOk(v, p) == [ok |-> TRUE, val |-> v, pos |-> p]

RECURSIVE SkipWS(_, _)
SkipWS(s, i) ==
  IF i <= Len(s) /\ s[i] \in WS THEN SkipWS(s, i + 1) ELSE i

StartsWith(s, i, lit) ==
  /\ i + Len(lit) - 1 <= Len(s)
  /\ SubSeq(s, i, i + Len(lit) - 1) = lit

\* the string body from position i (just after the opening quote)
RECURSIVE scanstring(_, _, _)
scanstring(s, i, acc) ==
  IF i > Len(s) THEN ScanErr
  ELSE IF s[i] = "\"" THEN ScanOk(JStr(acc), i + 1)
  ELSE IF s[i] = "\\" THEN
    IF i + 1 <= Len(s) /\ s[i + 1] \in Escapes
      THEN scanstring(s, i + 2, Append(acc, Unescape(s[i + 1])))
      ELSE ScanErr
  ELSE IF s[i] \in {"\n", "\r", "\t"} THEN ScanErr
  ELSE scanstring(s, i + 1, Append(acc, s[i]))

RECURSIVE scandigits(_, _, _)
scandigits(s, i, n) ==
  IF i <= Len(s) /\ s[i] \in Digits
    THEN scandigits(s, i + 1, 10 * n + DigitVal(s[i]))
    ELSE [n |-> n, pos |-> i]

\* NUMBER_RE at position i: -?(0|[1-9][0-9]*)
scannumber(s, i) ==
  LET neg == i <= Len(s) /\ s[i] = "-"
      j == IF neg THEN i + 1 ELSE i
  IN  IF j > Len(s) \/ s[j] \notin Digits THEN ScanErr
      ELSE IF s[j] = "0" THEN ScanOk(JInt(0), j + 1)
      ELSE LET d == scandigits(s, j, 0)
           IN  ScanOk(JInt(IF neg THEN 0 - d.n ELSE d.n), d.pos)

RECURSIVE scan_once(_, _)
RECURSIVE JSONObject(_, _)
RECURSIVE ObjectMembers(_, _, _)
RECURSIVE JSONArray(_, _)
RECURSIVE ArrayItems(_, _, _)

\* one JSON value starting exactly at position i
scan_once(s, i) ==
  IF i > Len(s) THEN ScanErr
  ELSE IF s[i] = "\"" THEN scanstring(s, i + 1, <<>>)
  ELSE IF s[i] = "{" THEN JSONObject(s, i + 1)
  ELSE IF s[i] = "[" THEN JSONArray(s, i + 1)
  ELSE IF StartsWith(s, i, <<"n", "u", "l", "l">>) THEN ScanOk(JNone, i + 4)
  ELSE IF StartsWith(s, i, <<"t", "r", "u", "e">>) THEN ScanOk(JBool(TRUE), i + 4)
  ELSE IF StartsWith(s, i, <<"f", "a", "l", "s", "e">>)
    THEN ScanOk(JBool(FALSE), i + 5)
  ELSE scannumber(s, i)

\* an object, from the position just after its "{"
JSONObject(s, i) ==
  LET j == SkipWS(s, i)
  IN  IF j > Len(s) THEN ScanErr
      ELSE IF s[j] = "}" THEN ScanOk(JDict(EmptyDict), j + 1)
      ELSE IF s[j] # "\"" THEN ScanErr
      ELSE ObjectMembers(s, j, EmptyDict)

\* the members of an object, from the opening quote of a key
ObjectMembers(s, i, acc) ==
  LET k == scanstring(s, i + 1, <<>>)
      c == SkipWS(s, k.pos)
      v == scan_once(s, SkipWS(s, c + 1))
      d == SkipWS(s, v.pos)
      acc2 == DictSet(acc, k.val.v, v.val)
      e == SkipWS(s, d + 1)
  IN  IF ~k.ok THEN ScanErr
      ELSE IF c > Len(s) \/ s[c] # ":" THEN ScanErr
      ELSE IF ~v.ok THEN ScanErr
      ELSE IF d > Len(s) THEN ScanErr
      ELSE IF s[d] = "}" THEN ScanOk(JDict(acc2), d + 1)
      ELSE IF s[d] # "," THEN ScanErr
      ELSE IF e > Len(s) \/ s[e] # "\"" THEN ScanErr
      ELSE ObjectMembers(s, e, acc2)

\* an array, from the position just after its "["
JSONArray(s, i) ==
  LET j == SkipWS(s, i)
  IN  IF j > Len(s) THEN ScanErr
      ELSE IF s[j] = "]" THEN ScanOk(JList(<<>>), j + 1)
      ELSE ArrayItems(s, j, <<>>)

\* the items of an array, from the first character of an item
ArrayItems(s, i, acc) ==
  LET v == scan_once(s, i)
      d == SkipWS(s, v.pos)
      acc2 == Append(acc, v.val)
  IN  IF ~v.ok THEN ScanErr
      ELSE IF d > Len(s) THEN ScanErr
      ELSE IF s[d] = "]" THEN ScanOk(JList(acc2), d + 1)
      ELSE IF s[d] # "," THEN ScanErr
      ELSE ArrayItems(s, SkipWS(s, d + 1), acc2)

\* json.loads(s): a value, or raised (JSONDecodeError)
json_loads(s) ==
  LET r == scan_once(s, SkipWS(s, 1))
  IN  IF ~r.ok THEN [raised |-> TRUE, val |-> JNone]
      ELSE IF SkipWS(s, r.pos) # Len(s) + 1 THEN [raised |-> TRUE, val |-> JNone]
      ELSE [raised |-> FALSE, val |-> r.val]

----------------------------------------------------------------------------
(* parse_judge_response *)

SetMin(S) == CHOOSE m \in S : \A n \in S : m <= n

SetMax(S) == CHOOSE m \in S : \A n \in S : m >= n

\* str.find / str.rfind: 0-based position, -1 when absent
find(s, c) ==
  LET P == {i \in 1..Len(s) : s[i] = c}
  IN  IF P = {} THEN -1 ELSE SetMin(P) - 1

\* rfind taken for find: the first occurrence instead of the last
rfind_first(s, c) ==
  LET P == {i \in 1..Len(s) : s[i] = c}
  IN  IF P = {} THEN -1 ELSE SetMin(P) - 1

rfind(s, c) ==
  LET P == {i \in 1..Len(s) : s[i] = c}
  IN  IF P = {} THEN -1 ELSE SetMax(P) - 1

\* str.index: as find, but raises ValueError when absent
index(s, c) == [raised |-> find(s, c) = -1, val |-> find(s, c)]

\* s[start:stop] for 0 <= start and 0 <= stop
Slice(s, start, stop) ==
  SubSeq(s, start + 1, IF stop < Len(s) THEN stop ELSE Len(s))

\* a fallback whose total_score clears every threshold
Fallback_passing ==
  JDict(DictSet(DictSet(DictSet(EmptyDict,
    K_total_score, JInt(50)),
    K_issues, JList(<<JStr(CouldNotParseMsg)>>)),
    K_suggested_fixes, JList(<<JStr(RegenerateMsg)>>)))

\* the record of the except branch
Fallback ==
  JDict(DictSet(DictSet(DictSet(DictSet(DictSet(DictSet(DictSet(DictSet(
    EmptyDict,
    K_clarity, JInt(0)),
    K_age_appropriateness, JInt(0)),
    K_emotional_safety, JInt(0)),
    K_creativity, JInt(0)),
    K_narrative_structure, JInt(0)),
    K_total_score, JInt(0)),
    K_issues, JList(<<JStr(CouldNotParseMsg)>>)),
    K_suggested_fixes, JList(<<JStr(RegenerateMsg)>>)))

\* the ValueError of str.index not caught: no record comes back
parse_judge_response_uncaught(text) ==
  LET start == index(text, "{")
      end == rfind(text, "}")
      json_str == Slice(text, start.val, end + 1)
      r == json_loads(json_str)
  IN  IF start.raised THEN JNone
      ELSE IF r.raised THEN JNone
      ELSE r.val

parse_judge_response(text) ==
  LET start == index(text, "{")
      end == rfind(text, "}")
      json_str == Slice(text, start.val, end + 1)
      r == json_loads(json_str)
  IN  IF start.raised THEN Fallback
      ELSE IF r.raised THEN Fallback
      ELSE r.val

----------------------------------------------------------------------------
(* Python operations the controller applies to an evaluation record *)

\* a < n for a JSON value a and an int n: TypeError unless a is a number
Less(a, n) ==
  CASE a.t = "int" -> [raised |-> FALSE, val |-> a.v < n]
    [] a.t = "bool" -> [raised |-> FALSE, val |-> (IF a.v THEN 1 ELSE 0) < n]
    [] OTHER -> [raised |-> TRUE, val |-> FALSE]

\* bool(a)
Truthy(a) ==
  CASE a.t = "int" -> a.v # 0
    [] a.t = "bool" -> a.v
    [] a.t = "None" -> FALSE
    [] a.t = "str" -> Len(a.v) > 0
    [] a.t = "list" -> Len(a.v) > 0
    [] a.t = "dict" -> DOMAIN a.v # {}

DigitChar(d) ==
  CASE d = 0 -> "0" [] d = 1 -> "1" [] d = 2 -> "2" [] d = 3 -> "3"
    [] d = 4 -> "4" [] d = 5 -> "5" [] d = 6 -> "6" [] d = 7 -> "7"
    [] d = 8 -> "8" [] d = 9 -> "9"

RECURSIVE NatStr(_)
NatStr(n) ==
  IF n < 10 THEN <<DigitChar(n)>>
  ELSE Append(NatStr(n \div 10), DigitChar(n % 10))

\* str(a), as an f-string field renders it (container items are rendered
\* by repr, which the replies drawn below never need)
Str(a) ==
  CASE a.t = "str" -> a.v
    [] a.t = "int" -> IF a.v < 0 THEN <<"-">> \o NatStr(0 - a.v) ELSE NatStr(a.v)
    [] a.t = "bool" -> IF a.v THEN PyTrue ELSE PyFalse
    [] a.t = "None" -> PyNone
    [] OTHER -> <<"<", "r", "e", "p", "r", ">">>

\* the keys of a dict, as a sequence (no reply drawn below iterates a dict,
\* so the insertion order Python keeps is not modelled)
RECURSIVE SetToSeq(_)
SetToSeq(S) ==
  IF S = {} THEN <<>>
  ELSE LET x == CHOOSE y \in S : TRUE IN <<x>> \o SetToSeq(S \ {x})

\* iter(a): the items a for-loop or str.join walks; TypeError when a is not iterable
Iter(a) ==
  CASE a.t = "list" -> [raised |-> FALSE, items |-> a.v]
    [] a.t = "str" ->
         [raised |-> FALSE, items |-> [i \in 1..Len(a.v) |-> JStr(<<a.v[i]>>)]]
    [] a.t = "dict" ->
         [raised |-> FALSE,
          items |-> LET ks == SetToSeq(DOMAIN a.v)
                    IN  [i \in 1..Len(ks) |-> JStr(ks[i])]]
    [] OTHER -> [raised |-> TRUE, items |-> <<>>]

\* sep.join(texts)
RECURSIVE Join(_, _)
Join(sep, texts) ==
  IF Len(texts) = 0 THEN <<>>
  ELSE IF Len(texts) = 1 THEN texts[1]
  ELSE texts[1] \o sep \o Join(sep, Tail(texts))

\* "\n".join(f"- {i}" for i in a)
Bullets(a) ==
  LET it == Iter(a)
  IN  [raised |-> it.raised,
       text |-> Join(<<"\n">>,
                     [i \in 1..Len(it.items) |-> <<"-", " ">> \o Str(it.items[i])])]

\* "- " + "\n- ".join(a): str.join raises TypeError on a non-str item
BulletJoin(a) ==
  LET it == Iter(a)
      bad == it.raised \/ \E i \in 1..Len(it.items) : it.items[i].t # "str"
  IN  [raised |-> bad,
       text |-> IF bad THEN <<>>
                ELSE <<"-", " ">> \o
                     Join(<<"\n", "-", " ">>,
                          [i \in 1..Len(it.items) |-> it.items[i].v])]

IsSpace(c) == c \in {" ", "\t", "\n", "\r", "\f"}

RECURSIVE lstrip(_)
lstrip(s) ==
  IF Len(s) > 0 /\ IsSpace(s[1]) THEN lstrip(Tail(s)) ELSE s

RECURSIVE rstrip(_)
rstrip(s) ==
  IF Len(s) > 0 /\ IsSpace(s[Len(s)]) THEN rstrip(SubSeq(s, 1, Len(s) - 1)) ELSE s

\* str.strip()
strip(s) == rstrip(lstrip(s))

----------------------------------------------------------------------------
(* Bounds and input sets *)

\* story_pipeline is explored for max_rounds in 0..MaxRoundsBound
MaxRoundsBound == 3

\* main reads at most MaxLines non-empty feedback lines
MaxLines == 2

\* thresholds story_pipeline is explored with (main passes 40)
MinScores == {0, 30, 40}

\* what the judge may answer in the runs of story_pipeline
JudgeReplies ==
  {Reply44, Reply25, Reply30, Reply20, ReplySorry, ReplyNoTotal,
   ReplyNullTotal, ReplyBadIssues, Reply30Issues}

\* what the judge may answer in a session of main
SessionReplies ==
  {Reply44, Reply25, Reply20, ReplySorry, ReplyNullTotal, ReplyBadIssues}

\* what a console line may be
FeedbackLines == {<<>>, Blank, MakeItFunnier, Shorter}

\* what the request line may be
Requests == {<<>>, DragonRequest}

----------------------------------------------------------------------------
(* The gateway and the agents *)

\* what one call_model invocation can do: raise, or return a text
GatewayOutcomes(texts) ==
  {[raised |-> TRUE, text |-> <<>>]} \cup
  {[raised |-> FALSE, text |-> x] : x \in texts}

\* a story text is opaque: the reply of the n-th invocation is story n
StoryOutcomes == GatewayOutcomes({<<>>})

JudgeOutcomes == GatewayOutcomes(judge_texts)

\* the log entry of one call_model invocation
call_model(op, story_in, arg, o) ==
  [op |-> op, story |-> story_in, arg |-> arg, ok |-> ~o.raised, reply |-> o.text]

\* the story the next invocation returns
NewStory == Len(calls) + 1

generate_initial_story(request, o) ==
  call_model("draft", 0, <<request>>, o)

\* judge_story: one invocation, then the parser on its reply
judge_call(s, o) == call_model("judge", s, <<>>, o)

\* the parser on each text the judge may answer, computed once
ParsedReply == [r \in JudgeReplies |-> parse_judge_response(r)]

judge_story(o) == ParsedReply[o.text]

\* an empty list rendered as an empty block
revise_prompt_nodefault(data) ==
  LET issues_text == Bullets(Get(data, K_issues, JList(<<>>)))
      fixes_text == Bullets(Get(data, K_suggested_fixes, JList(<<>>)))
  IN  [raised |-> issues_text.raised \/ fixes_text.raised,
       issues |-> issues_text.text,
       fixes |-> fixes_text.text]

\* revise_story: the two flattened blocks of the revision prompt
revise_prompt(data) ==
  LET issues_text == Bullets(Get(data, K_issues, JList(<<>>)))
      fixes_text == Bullets(Get(data, K_suggested_fixes, JList(<<>>)))
  IN  [raised |-> issues_text.raised \/ fixes_text.raised,
       issues |-> IF Len(issues_text.text) > 0 THEN issues_text.text
                  ELSE NoIssuesListed,
       fixes |-> IF Len(fixes_text.text) > 0 THEN fixes_text.text
                 ELSE NoFixesListed]

revise_story(s, data, o) ==
  call_model("revise", s, <<revise_prompt(data).issues, revise_prompt(data).fixes>>, o)

\* the printed round report of story_pipeline
RoundReport(n, data) ==
  [kind |-> "round", round |-> n,
   score |-> Get(data, K_total_score, JNone),
   issues |-> Get(data, K_issues, JNone)]

\* <= for <
gate_lenient(data, min) == Less(Get(data, K_total_score, JInt(0)), min + 1)

\* the sub-scores, when the record has any, summed and compared
gate_subscores(data, min) ==
  LET subs == {K_clarity, K_age_appropriateness, K_emotional_safety,
               K_creativity, K_narrative_structure} \cap DOMAIN data.v
      RECURSIVE Sum(_)
      Sum(S) == IF S = {} THEN 0
                ELSE LET k == CHOOSE x \in S : TRUE
                     IN  data.v[k].v + Sum(S \ {k})
  IN  IF subs = {} THEN Less(Get(data, K_total_score, JInt(0)), min)
      ELSE [raised |-> FALSE, val |-> Sum(subs) < min]

\* the loop test of story_pipeline
gate(data, min) == Less(Get(data, K_total_score, JInt(0)), min)

\* round_idx <= max_rounds for round_idx < max_rounds
ContinueLoop_inclusive(data, min, n, max) ==
  /\ ~gate(data, min).raised
  /\ gate(data, min).val
  /\ n <= max

ContinueLoop(data, min, n, max) ==
  /\ ~gate(data, min).raised
  /\ gate(data, min).val
  /\ n < max

Raise(kind) ==
  /\ pc' = "raised"
  /\ error' = kind

----------------------------------------------------------------------------
(* story_pipeline *)

mainLocals == <<current_story, current_judge_data, user_feedback,
                updated_story, updated_judge_data, lines>>

harness == <<raw, parsed>>

params == <<user_request, min_score, max_rounds, verbose, judge_texts>>

\* a failed first call is made once more
Draft_retry ==
  /\ pc = "draft"
  /\ \E o \in StoryOutcomes :
       /\ calls' = Append(calls, generate_initial_story(user_request, o))
       /\ IF o.raised
            THEN /\ IF calls = <<>> THEN UNCHANGED <<pc, error>> ELSE Raise("gateway")
                 /\ UNCHANGED story
            ELSE pc' = "judge_draft" /\ story' = NewStory /\ UNCHANGED error
  /\ UNCHANGED <<params, judge_data, round_idx, out, mainLocals, harness>>

\* line 216
Draft ==
  /\ pc = "draft"
  /\ \E o \in StoryOutcomes :
       /\ calls' = Append(calls, generate_initial_story(user_request, o))
       /\ IF o.raised
            THEN Raise("gateway") /\ UNCHANGED story
            ELSE pc' = "judge_draft" /\ story' = NewStory /\ UNCHANGED error
  /\ UNCHANGED <<params, judge_data, round_idx, out, mainLocals, harness>>

\* the round counter started at 0
JudgeDraft_zero ==
  /\ pc = "judge_draft"
  /\ \E o \in JudgeOutcomes :
       /\ calls' = Append(calls, judge_call(story, o))
       /\ IF o.raised
            THEN Raise("gateway") /\ UNCHANGED <<judge_data, round_idx, out>>
            ELSE /\ pc' = "loop"
                 /\ judge_data' = judge_story(o)
                 /\ round_idx' = 0
                 /\ out' = IF verbose THEN Append(out, RoundReport(1, judge_story(o)))
                           ELSE out
                 /\ UNCHANGED error
  /\ UNCHANGED <<params, story, mainLocals, harness>>

\* the round counter set inside the verbose block
JudgeDraft_quiet ==
  /\ pc = "judge_draft"
  /\ \E o \in JudgeOutcomes :
       /\ calls' = Append(calls, judge_call(story, o))
       /\ IF o.raised
            THEN Raise("gateway") /\ UNCHANGED <<judge_data, round_idx, out>>
            ELSE /\ pc' = "loop"
                 /\ judge_data' = judge_story(o)
                 /\ round_idx' = IF verbose THEN 1 ELSE round_idx
                 /\ out' = IF verbose THEN Append(out, RoundReport(1, judge_story(o)))
                           ELSE out
                 /\ UNCHANGED error
  /\ UNCHANGED <<params, story, mainLocals, harness>>

\* lines 217-224
JudgeDraft ==
  /\ pc = "judge_draft"
  /\ \E o \in JudgeOutcomes :
       /\ calls' = Append(calls, judge_call(story, o))
       /\ IF o.raised
            THEN Raise("gateway") /\ UNCHANGED <<judge_data, round_idx, out>>
            ELSE /\ pc' = "loop"
                 /\ judge_data' = judge_story(o)
                 /\ round_idx' = 1
                 /\ out' = IF verbose THEN Append(out, RoundReport(1, judge_story(o)))
                           ELSE out
                 /\ UNCHANGED error
  /\ UNCHANGED <<params, story, mainLocals, harness>>

\* line 225, the comparison raising TypeError
LoopTestRaises ==
  /\ pc = "loop"
  /\ gate(judge_data, min_score).raised
  /\ Raise("TypeError")
  /\ UNCHANGED <<params, story, judge_data, round_idx, calls, out, mainLocals, harness>>

\* lines 225-227
Revise ==
  /\ pc = "loop"
  /\ ContinueLoop(judge_data, min_score, round_idx, max_rounds)
  /\ round_idx' = round_idx + 1
  /\ IF revise_prompt(judge_data).raised
       THEN Raise("TypeError") /\ UNCHANGED <<story, calls>>
       ELSE \E o \in StoryOutcomes :
              /\ calls' = Append(calls, revise_story(story, judge_data, o))
              /\ IF o.raised
                   THEN Raise("gateway") /\ UNCHANGED story
                   ELSE pc' = "judge_revision" /\ story' = NewStory /\ UNCHANGED error
  /\ UNCHANGED <<params, judge_data, out, mainLocals, harness>>

\* the better of the old and the new evaluation kept
JudgeRevision_keepbest ==
  /\ pc = "judge_revision"
  /\ \E o \in JudgeOutcomes :
       /\ calls' = Append(calls, judge_call(story, o))
       /\ IF o.raised
            THEN Raise("gateway") /\ UNCHANGED <<judge_data, out>>
            ELSE /\ pc' = "loop"
                 /\ judge_data' =
                      IF Less(Get(judge_story(o), K_total_score, JInt(0)),
                              Get(judge_data, K_total_score, JInt(0)).v).val
                        THEN judge_data
                        ELSE judge_story(o)
                 /\ out' = IF verbose
                             THEN Append(out, RoundReport(round_idx, judge_story(o)))
                             ELSE out
                 /\ UNCHANGED error
  /\ UNCHANGED <<params, story, round_idx, mainLocals, harness>>

\* an unparsable reply asked for again
JudgeRevision_retry ==
  /\ pc = "judge_revision"
  /\ \E o \in JudgeOutcomes :
       /\ calls' = Append(calls, judge_call(story, o))
       /\ IF o.raised
            THEN Raise("gateway") /\ UNCHANGED <<judge_data, out>>
            ELSE IF judge_story(o) = Fallback
                   THEN UNCHANGED <<pc, error, judge_data, out>>
                   ELSE /\ pc' = "loop"
                        /\ judge_data' = judge_story(o)
                        /\ out' = IF verbose
                                    THEN Append(out, RoundReport(round_idx, judge_story(o)))
                                    ELSE out
                        /\ UNCHANGED error
  /\ UNCHANGED <<params, story, round_idx, mainLocals, harness>>

\* lines 228-233
JudgeRevision ==
  /\ pc = "judge_revision"
  /\ \E o \in JudgeOutcomes :
       /\ calls' = Append(calls, judge_call(story, o))
       /\ IF o.raised
            THEN Raise("gateway") /\ UNCHANGED <<judge_data, out>>
            ELSE /\ pc' = "loop"
                 /\ judge_data' = judge_story(o)
                 /\ out' = IF verbose
                             THEN Append(out, RoundReport(round_idx, judge_story(o)))
                             ELSE out
                 /\ UNCHANGED error
  /\ UNCHANGED <<params, story, round_idx, mainLocals, harness>>

\* the loop left only on a passing score
Return_passonly ==
  /\ pc = "loop"
  /\ ~gate(judge_data, min_score).raised
  /\ ~gate(judge_data, min_score).val
  /\ pc' = "returned"
  /\ UNCHANGED <<error, params, story, judge_data, round_idx, calls, out,
                 mainLocals, harness>>

\* lines 225 and 235
Return ==
  /\ pc = "loop"
  /\ ~gate(judge_data, min_score).raised
  /\ ~ContinueLoop(judge_data, min_score, round_idx, max_rounds)
  /\ pc' = "returned"
  /\ UNCHANGED <<error, params, story, judge_data, round_idx, calls, out,
                 mainLocals, harness>>

----------------------------------------------------------------------------
(* main *)

\* lines 253-258
ReadRequest ==
  /\ pc = "main"
  /\ \E line \in Requests : user_request' = line
  /\ pc' = "call_pipeline"
  /\ UNCHANGED <<error, min_score, max_rounds, verbose, judge_texts, story, judge_data,
                 round_idx, calls, out, mainLocals, harness>>

\* lines 261-266
CallPipeline ==
  /\ pc = "call_pipeline"
  /\ min_score' = 40
  /\ max_rounds' = 3
  /\ verbose' = TRUE
  /\ pc' = "draft"
  /\ UNCHANGED <<error, user_request, judge_texts, story, judge_data, round_idx,
                 calls, out, mainLocals, harness>>

\* what main prints for an issues value: the joined bullets, or "(none reported)"
IssuesReport(data) ==
  LET issues == Get(data, K_issues, JList(<<>>))
  IN  IF Truthy(issues) THEN BulletJoin(issues)
      ELSE [raised |-> FALSE, text |-> <<>>]

\* the feedback loop started from the first draft
ShowStory_firstdraft ==
  /\ pc = "returned"
  /\ IF IssuesReport(judge_data).raised
       THEN /\ Raise("TypeError")
            /\ out' = Append(out, [kind |-> "story", story |-> story,
                                   score |-> Get(judge_data, K_total_score, JNone),
                                   issues |-> <<>>])
            /\ UNCHANGED <<current_story, current_judge_data>>
       ELSE /\ pc' = "read_feedback"
            /\ out' = Append(out, [kind |-> "story", story |-> story,
                                   score |-> Get(judge_data, K_total_score, JNone),
                                   issues |-> IssuesReport(judge_data).text])
            /\ current_story' = 1
            /\ current_judge_data' = judge_data
            /\ UNCHANGED error
  /\ UNCHANGED <<params, story, judge_data, round_idx, calls, user_feedback,
                 updated_story, updated_judge_data, lines, harness>>

\* lines 261 and 268-283
ShowStory ==
  /\ pc = "returned"
  /\ IF IssuesReport(judge_data).raised
       THEN /\ Raise("TypeError")
            /\ out' = Append(out, [kind |-> "story", story |-> story,
                                   score |-> Get(judge_data, K_total_score, JNone),
                                   issues |-> <<>>])
            /\ UNCHANGED <<current_story, current_judge_data>>
       ELSE /\ pc' = "read_feedback"
            /\ out' = Append(out, [kind |-> "story", story |-> story,
                                   score |-> Get(judge_data, K_total_score, JNone),
                                   issues |-> IssuesReport(judge_data).text])
            /\ current_story' = story
            /\ current_judge_data' = judge_data
            /\ UNCHANGED error
  /\ UNCHANGED <<params, story, judge_data, round_idx, calls, user_feedback,
                 updated_story, updated_judge_data, lines, harness>>

NonEmptyLinesRead == Len(SelectSeq(lines, LAMBDA l : strip(l) # <<>>))

\* the line not stripped
ReadFeedback_nostrip ==
  /\ pc = "read_feedback"
  /\ \E line \in FeedbackLines :
       /\ strip(line) # <<>> => NonEmptyLinesRead < MaxLines
       /\ lines' = Append(lines, line)
       /\ user_feedback' = line
       /\ pc' = IF line = <<>> THEN "final_report" ELSE "rewrite"
  /\ UNCHANGED <<error, params, story, judge_data, round_idx, calls, out,
                 current_story, current_judge_data, updated_story,
                 updated_judge_data, harness>>

\* lines 287-293
ReadFeedback ==
  /\ pc = "read_feedback"
  /\ \E line \in FeedbackLines :
       /\ strip(line) # <<>> => NonEmptyLinesRead < MaxLines
       /\ lines' = Append(lines, line)
       /\ user_feedback' = strip(line)
       /\ pc' = IF strip(line) = <<>> THEN "final_report" ELSE "rewrite"
  /\ UNCHANGED <<error, params, story, judge_data, round_idx, calls, out,
                 current_story, current_judge_data, updated_story,
                 updated_judge_data, harness>>

\* lines 293-303
FinalReport ==
  /\ pc = "final_report"
  /\ IF IssuesReport(current_judge_data).raised
       THEN /\ Raise("TypeError")
            /\ out' = Append(out, [kind |-> "final",
                                   score |-> Get(current_judge_data, K_total_score, JNone),
                                   issues |-> <<>>])
       ELSE /\ pc' = "done"
            /\ out' = Append(out, [kind |-> "final",
                                   score |-> Get(current_judge_data, K_total_score, JNone),
                                   issues |-> IssuesReport(current_judge_data).text])
            /\ UNCHANGED error
  /\ UNCHANGED <<params, story, judge_data, round_idx, calls, mainLocals, harness>>

\* lines 306-315
Rewrite ==
  /\ pc = "rewrite"
  /\ \E o \in StoryOutcomes :
       /\ calls' = Append(calls, call_model("rewrite", current_story, <<user_feedback>>, o))
       /\ IF o.raised
            THEN Raise("gateway") /\ UNCHANGED updated_story
            ELSE pc' = "judge_updated" /\ updated_story' = NewStory /\ UNCHANGED error
  /\ UNCHANGED <<params, story, judge_data, round_idx, out, current_story,
                 current_judge_data, user_feedback, updated_judge_data, lines,
                 harness>>

\* line 318
JudgeUpdated ==
  /\ pc = "judge_updated"
  /\ \E o \in JudgeOutcomes :
       /\ calls' = Append(calls, judge_call(updated_story, o))
       /\ IF o.raised
            THEN Raise("gateway") /\ UNCHANGED updated_judge_data
            ELSE /\ pc' = "update"
                 /\ updated_judge_data' = judge_story(o)
                 /\ UNCHANGED error
  /\ UNCHANGED <<params, story, judge_data, round_idx, out, current_story,
                 current_judge_data, user_feedback, updated_story, lines, harness>>

\* the updated pair sent back through the threshold loop
UpdateCurrent_regate ==
  /\ pc = "update"
  /\ current_story' = updated_story
  /\ current_judge_data' = updated_judge_data
  /\ story' = updated_story
  /\ judge_data' = updated_judge_data
  /\ round_idx' = 1
  /\ pc' = "loop"
  /\ out' = Append(out, [kind |-> "updated", story |-> updated_story,
                         score |-> Get(updated_judge_data, K_total_score, JNone),
                         issues |-> <<>>])
  /\ UNCHANGED <<error, params, calls, user_feedback, updated_story,
                 updated_judge_data, lines, harness>>

\* the story replaced, its evaluation not
UpdateCurrent_storyonly ==
  /\ pc = "update"
  /\ current_story' = updated_story
  /\ current_judge_data' = current_judge_data
  /\ IF IssuesReport(updated_judge_data).raised
       THEN /\ Raise("TypeError")
            /\ out' = Append(out, [kind |-> "updated", story |-> updated_story,
                                   score |-> Get(updated_judge_data, K_total_score, JNone),
                                   issues |-> <<>>])
       ELSE /\ pc' = "read_feedback"
            /\ out' = Append(out, [kind |-> "updated", story |-> updated_story,
                                   score |-> Get(updated_judge_data, K_total_score, JNone),
                                   issues |-> IssuesReport(updated_judge_data).text])
            /\ UNCHANGED error
  /\ UNCHANGED <<params, story, judge_data, round_idx, calls, user_feedback,
                 updated_story, updated_judge_data, lines, harness>>

\* lines 321-337
UpdateCurrent ==
  /\ pc = "update"
  /\ current_story' = updated_story
  /\ current_judge_data' = updated_judge_data
  /\ IF IssuesReport(updated_judge_data).raised
       THEN /\ Raise("TypeError")
            /\ out' = Append(out, [kind |-> "updated", story |-> updated_story,
                                   score |-> Get(updated_judge_data, K_total_score, JNone),
                                   issues |-> <<>>])
       ELSE /\ pc' = "read_feedback"
            /\ out' = Append(out, [kind |-> "updated", story |-> updated_story,
                                   score |-> Get(updated_judge_data, K_total_score, JNone),
                                   issues |-> IssuesReport(updated_judge_data).text])
            /\ UNCHANGED error
  /\ UNCHANGED <<params, story, judge_data, round_idx, calls, user_feedback,
                 updated_story, updated_judge_data, lines, harness>>

----------------------------------------------------------------------------
(* The parser on its own *)

\* the longest commentary before and after the body of a raw reply
MaxPrefix == 2

MaxSuffix == 2

\* the characters commentary is made of
TextChars == {"{", "}", "\"", ",", "1", " "}

TextsUpTo(n) == UNION {[1..k -> TextChars] : k \in 0..n}

\* the bodies of the raw replies: JSON objects, near misses, plain text
Bodies ==
  {<<>>, BodyEmptyObject, BodyMember, BodyNested, BodyBraceInString,
   BodyUnclosed, BodyNoColon, BodyTrailingComma, BodyTwoObjects, BodyArray,
   BodyDuplicateKey, CouldNotParseMsg, Reply25}

\* lines 146-174, applied to the text drawn by InitParser
Parse ==
  /\ pc = "parse"
  /\ parsed' = parse_judge_response(raw)
  /\ pc' = "parsed"
  /\ UNCHANGED <<error, params, story, judge_data, round_idx, calls, out,
                 mainLocals, raw>>

----------------------------------------------------------------------------
(* Specifications *)

Idle ==
  /\ error = ""
  /\ story = 0
  /\ judge_data = JNone
  /\ round_idx = 0
  /\ current_story = 0
  /\ current_judge_data = JNone
  /\ user_feedback = <<>>
  /\ updated_story = 0
  /\ updated_judge_data = JNone
  /\ calls = <<>>
  /\ lines = <<>>
  /\ out = <<>>

\* one session of main
Init ==
  /\ pc = "main"
  /\ user_request = <<>>
  /\ min_score = 0
  /\ max_rounds = 0
  /\ verbose = FALSE
  /\ judge_texts = SessionReplies
  /\ raw = <<>>
  /\ parsed = JNone
  /\ Idle

Next ==
  \/ ReadRequest
  \/ CallPipeline
  \/ Draft
  \/ JudgeDraft
  \/ LoopTestRaises
  \/ Revise
  \/ JudgeRevision
  \/ Return
  \/ ShowStory
  \/ ReadFeedback
  \/ FinalReport
  \/ Rewrite
  \/ JudgeUpdated
  \/ UpdateCurrent

Spec == Init /\ [][Next]_vars

\* one call of story_pipeline, for every threshold and round cap
InitPipeline ==
  /\ pc = "draft"
  /\ user_request \in Requests
  /\ min_score \in MinScores
  /\ max_rounds \in 0..MaxRoundsBound
  /\ verbose \in BOOLEAN
  /\ judge_texts = JudgeReplies
  /\ raw = <<>>
  /\ parsed = JNone
  /\ Idle

NextPipeline ==
  \/ Draft
  \/ JudgeDraft
  \/ LoopTestRaises
  \/ Revise
  \/ JudgeRevision
  \/ Return

SpecPipeline == InitPipeline /\ [][NextPipeline]_vars

\* story_pipeline as a sequential program: while a statement is left to run,
\* one runs (every gateway call made comes back, with a reply or a failure)
SpecPipelineFair == InitPipeline /\ [][NextPipeline]_vars /\ WF_vars(NextPipeline)

\* parse_judge_response on every text prefix + body + suffix
InitParser ==
  /\ pc = "parse"
  /\ \E p \in TextsUpTo(MaxPrefix), b \in Bodies, x \in TextsUpTo(MaxSuffix) :
       raw = p \o b \o x
  /\ parsed = JNone
  /\ user_request = <<>>
  /\ min_score = 0
  /\ max_rounds = 0
  /\ verbose = FALSE
  /\ judge_texts = {}
  /\ Idle

NextParser == Parse

SpecParser == InitParser /\ [][NextParser]_vars

----------------------------------------------------------------------------
(* What a run has done, read off the call log *)

Min2(a, b) == IF a < b THEN a ELSE b

Max2(a, b) == IF a > b THEN a ELSE b

\* the judge_story calls of the run, in order
EvalSeq == SelectSeq(calls, LAMBDA c : c.op = "judge")

\* the revise_story calls of the run, in order
ReviseSeq == SelectSeq(calls, LAMBDA c : c.op = "revise")

\* positions of the calls that returned a story
StoryCalls ==
  {i \in 1..Len(calls) : calls[i].ok /\ calls[i].op \in {"draft", "revise", "rewrite"}}

LastCall == calls[Len(calls)]

\* the number the loop test compares with min_score
GateScore(data) ==
  LET v == Get(data, K_total_score, JInt(0))
  IN  IF v.t = "bool" THEN (IF v.v THEN 1 ELSE 0) ELSE v.v

Comparable(data) == Get(data, K_total_score, JInt(0)).t \in {"int", "bool"}

\* the evaluation a logged judge call returned
EvaluationOf(c) == ParsedReply[c.reply]

\* total_score of the i-th evaluation of the run
ScoreAt(i) == GateScore(EvaluationOf(EvalSeq[i]))

RepliesSoFar == [i \in 1..Len(EvalSeq) |-> EvalSeq[i].reply]

\* rounds whose evaluation reached the threshold
PassingRounds == {i \in 1..Len(EvalSeq) : ScoreAt(i) >= min_score}

\* the parser took its except branch on this text
ParseFailed(text) ==
  \/ index(text, "{").raised
  \/ json_loads(Slice(text, find(text, "{"), rfind(text, "}") + 1)).raised

----------------------------------------------------------------------------
(* C1 *)

\* C1 as stated: a returned story_pipeline made exactly min(k, max_rounds)
\* evaluation calls, k the first round with total_score >= min_score, or
\* max_rounds when there is none.  Fails for max_rounds < 1.
C1_Original ==
  pc = "returned" =>
    Len(EvalSeq) = Min2(IF PassingRounds = {} THEN max_rounds
                        ELSE SetMin(PassingRounds), max_rounds)

\* the first evaluation is made whatever max_rounds is
RoundCap == Max2(max_rounds, 1)

\* C1, amended: a returned story_pipeline made exactly min(k, m) evaluation
\* calls, where m = max(max_rounds, 1) and k is the first round with
\* total_score >= min_score, or m when there is none within the cap.
C1_EvaluationCount ==
  pc = "returned" =>
    Len(EvalSeq) = Min2(IF PassingRounds = {} THEN RoundCap
                        ELSE SetMin(PassingRounds), RoundCap)

\* scores 25, 30, 20 under min_score 40 and max_rounds 3: three evaluations
C1_Witness ==
  /\ pc = "returned"
  /\ min_score = 40
  /\ max_rounds = 3
  /\ RepliesSoFar = <<Reply25, Reply30, Reply20>>
  /\ Len(EvalSeq) = 3

----------------------------------------------------------------------------
(* C2 *)

StopCondition ==
  GateScore(judge_data) >= min_score \/ round_idx >= max_rounds

\* C2 as stated, its conclusion: a returned evaluation reached min_score or
\* the round counter equals max_rounds.  Fails for max_rounds < 1.
C2_Original ==
  pc = "returned" =>
    GateScore(judge_data) >= min_score \/ round_idx = max_rounds

C2_Step ==
  /\ (pc = "loop" /\ Comparable(judge_data)) =>
       IF StopCondition
         THEN /\ pc' = "returned"
              /\ story' = story
              /\ judge_data' = judge_data
              /\ calls' = calls
         ELSE /\ round_idx' = round_idx + 1
              /\ Len(calls') = Len(calls) + 1
              /\ calls'[Len(calls')].op = "revise"
              /\ calls'[Len(calls')].story = story
              /\ calls'[Len(calls')].arg =
                   <<revise_prompt(judge_data).issues, revise_prompt(judge_data).fixes>>
              /\ pc' \in {"judge_revision", "raised"}
  /\ pc = "judge_revision" =>
       /\ Len(calls') = Len(calls) + 1
       /\ calls'[Len(calls')].op = "judge"
       /\ calls'[Len(calls')].story = story
       /\ pc' \in {"loop", "raised"}
  /\ pc' = "returned" => pc = "loop" /\ StopCondition

\* C2, amended: after each evaluation the controller returns (story,
\* evaluation) exactly when total_score >= min_score or the round counter is
\* at least max_rounds; otherwise it increments the counter, revises the
\* current story with the current evaluation and evaluates the result.
C2_StoppingRule == [][C2_Step]_vars

\* the budget ran out on a story that never reached the threshold
C2_Witness ==
  /\ pc = "returned"
  /\ GateScore(judge_data) < min_score
  /\ round_idx = 3
  /\ max_rounds = 3
  /\ Len(ReviseSeq) = 2

----------------------------------------------------------------------------
(* C3 *)

\* C3: story_pipeline returns the last story produced and the evaluation of
\* that story, whatever the earlier rounds scored.
C3_LastPairReturned ==
  pc = "returned" =>
    /\ story = SetMax(StoryCalls)
    /\ LastCall.op = "judge"
    /\ LastCall.story = story
    /\ judge_data = EvaluationOf(LastCall)

\* scores 25, 30, 20: the round-3 story is returned with total_score 20
C3_Witness ==
  /\ pc = "returned"
  /\ Len(EvalSeq) = 3
  /\ ScoreAt(1) = 25
  /\ ScoreAt(2) = 30
  /\ GateScore(judge_data) = 20
  /\ story = 5

----------------------------------------------------------------------------
(* C4 *)

\* C4 as stated: never more than max_rounds evaluation calls nor more than
\* max_rounds - 1 revisions.  Fails for max_rounds < 1.
C4_Original ==
  /\ Len(EvalSeq) <= max_rounds
  /\ Len(ReviseSeq) > 0 => Len(ReviseSeq) <= max_rounds - 1

\* C4, amended: never more than max(max_rounds, 1) evaluation calls nor more
\* than max(max_rounds, 1) - 1 revisions; the round counter is 1 after the
\* first evaluation and after each evaluation it is the number of evaluations
\* made so far.
C4_RoundBudget ==
  /\ Len(EvalSeq) <= RoundCap
  /\ Len(ReviseSeq) <= RoundCap - 1
  /\ pc \in {"loop", "returned"} => round_idx = Len(EvalSeq)
  /\ (pc = "loop" /\ Len(ReviseSeq) = 0) => round_idx = 1

\* the whole budget of three rounds was used
C4_Witness ==
  /\ pc = "returned"
  /\ max_rounds = 3
  /\ Len(EvalSeq) = 3
  /\ Len(ReviseSeq) = 2
  /\ round_idx = 3

----------------------------------------------------------------------------
(* C6 *)

LastReplyUnparsed ==
  /\ Len(EvalSeq) > 0
  /\ EvalSeq[Len(EvalSeq)].ok
  /\ ParseFailed(EvalSeq[Len(EvalSeq)].reply)

\* C6 as stated: for every min_score, an evaluation that came from the
\* except branch of the parser is returned only when the round budget is
\* exhausted.  Fails for min_score <= 0.
C6_Original ==
  (pc = "returned" /\ LastReplyUnparsed) => round_idx >= max_rounds

C6_Step ==
  (pc = "loop" /\ LastReplyUnparsed /\ min_score > 0) =>
    /\ pc' = "returned" => round_idx >= max_rounds
    /\ round_idx < max_rounds =>
         /\ Len(calls') = Len(calls) + 1
         /\ calls'[Len(calls')].op = "revise"

\* C6, amended: for every min_score > 0 the total_score 0 of the fallback
\* record fails the gate: it forces a revision round while rounds remain and
\* is returned only when the round budget is exhausted.
C6_FailSafeLow == [][C6_Step]_vars

\* a fallback evaluation returned as final by an exhausted budget
C6_Witness ==
  /\ pc = "returned"
  /\ min_score = 40
  /\ LastReplyUnparsed
  /\ GateScore(judge_data) = 0
  /\ round_idx = 3
  /\ max_rounds = 3

----------------------------------------------------------------------------
(* C5 *)

OpAt(i) == calls[i].op

StoryOps == {"draft", "revise", "rewrite"}

\* C5: the gateway-backed operations of a session follow
\* draft, evaluate, (revise, evaluate)*, (rewrite, evaluate)*: the draft is
\* the first call and the only draft, every draft, revise or rewrite is
\* followed at once by one evaluate of its story, and no revise follows a
\* rewrite.
C5_Ordering ==
  /\ \A i \in 1..Len(calls) :
       /\ (i = 1) <=> (OpAt(i) = "draft")
       /\ (OpAt(i) \in StoryOps /\ i < Len(calls)) =>
            /\ OpAt(i + 1) = "judge"
            /\ calls[i + 1].story = i
       /\ OpAt(i) = "judge" => (i > 1 /\ OpAt(i - 1) \in StoryOps)
       /\ OpAt(i) = "revise" => \A j \in 1..i : OpAt(j) # "rewrite"
  /\ (Len(calls) > 0 /\ LastCall.op \in StoryOps /\ LastCall.ok) =>
       pc \in {"judge_draft", "judge_revision", "judge_updated"}

\* two automated revisions, then two human-feedback rewrites
C5_Witness ==
  [i \in 1..Len(calls) |-> OpAt(i)] =
    <<"draft", "judge", "revise", "judge", "revise", "judge",
      "rewrite", "judge", "rewrite", "judge">>

----------------------------------------------------------------------------
(* C9 *)

NonEmptyLines == SelectSeq(lines, LAMBDA l : strip(l) # <<>>)

RewriteSeq == SelectSeq(calls, LAMBDA c : c.op = "rewrite")

LastLineEmpty == Len(lines) > 0 /\ strip(lines[Len(lines)]) = <<>>

C9_State ==
  /\ \A i \in 1..(Len(lines) - 1) : strip(lines[i]) # <<>>
  /\ Len(RewriteSeq) = Len(NonEmptyLines) - (IF pc = "rewrite" THEN 1 ELSE 0)
  /\ \A i \in 1..Len(RewriteSeq) : RewriteSeq[i].arg = <<strip(NonEmptyLines[i])>>
  /\ \A i \in 1..Len(calls) :
       (calls[i].op = "rewrite" /\ i < Len(calls)) =>
         /\ calls[i + 1].op = "judge"
         /\ calls[i + 1].story = i
         /\ i + 1 < Len(calls) => calls[i + 2].op = "rewrite"
  /\ LastLineEmpty => pc \in {"final_report", "done"}
  /\ pc \in {"final_report", "done"} => LastLineEmpty
  /\ pc = "done" =>
       /\ Len(RewriteSeq) = Len(lines) - 1
       /\ \A i \in 1..Len(RewriteSeq) : RewriteSeq[i].ok

C9_Step ==
  /\ pc = "read_feedback" =>
       /\ Len(lines') = Len(lines) + 1
       /\ calls' = calls
       /\ pc' = IF strip(lines'[Len(lines')]) = <<>> THEN "final_report" ELSE "rewrite"
  /\ pc = "update" => (pc' \in {"read_feedback", "raised"} /\ calls' = calls)
  /\ pc = "final_report" => calls' = calls
  /\ pc \in {"read_feedback", "rewrite", "judge_updated", "update", "final_report"} =>
       (Len(calls') > Len(calls) => calls'[Len(calls')].op \in {"rewrite", "judge"})

\* C9: the feedback loop runs one rewrite then one evaluate for each line
\* that is non-empty after trimming, in input order, and ends the session at
\* the first line that is empty after trimming; no count of cycles and no
\* total_score ends it or starts an automated revision.
C9_FeedbackLoop == [](C9_State) /\ [][C9_Step]_vars

\* "make it funnier", then an empty line: one rewrite and one evaluate
C9_Witness ==
  /\ pc = "done"
  /\ lines = <<MakeItFunnier, <<>>>>
  /\ Len(RewriteSeq) = 1
  /\ RewriteSeq[1].arg = <<MakeItFunnier>>
  /\ LastCall.op = "judge"

----------------------------------------------------------------------------
(* C10 *)

\* C10: between cycles the session holds the latest story together with the
\* evaluation of that story, and the final report gives the score and the
\* issues of that evaluation.
C10_CurrentPair ==
  /\ pc \in {"read_feedback", "rewrite", "final_report", "done"} =>
       /\ current_story = SetMax(StoryCalls)
       /\ LastCall.op = "judge"
       /\ LastCall.story = current_story
       /\ current_judge_data = EvaluationOf(LastCall)
  /\ pc = "done" =>
       /\ out[Len(out)].kind = "final"
       /\ out[Len(out)].score =
            Get(EvaluationOf(LastCall), K_total_score, JNone)
       /\ out[Len(out)].issues =
            IssuesReport(EvaluationOf(LastCall)).text

\* two feedback cycles: the final report is the second cycle's, not the first's
C10_Witness ==
  /\ pc = "done"
  /\ Len(RewriteSeq) = 2
  /\ [i \in 1..Len(EvalSeq) |-> EvalSeq[i].reply] = <<Reply44, Reply20, Reply25>>
  /\ out[Len(out)].score = JInt(25)
  /\ current_story = 5

----------------------------------------------------------------------------
(* C7 *)

\* the record of section 4.1, written out
C7_FallbackRecord ==
  JDict((K_clarity :> JInt(0)) @@ (K_age_appropriateness :> JInt(0)) @@
        (K_emotional_safety :> JInt(0)) @@ (K_creativity :> JInt(0)) @@
        (K_narrative_structure :> JInt(0)) @@ (K_total_score :> JInt(0)) @@
        (K_issues :> JList(<<JStr(CouldNotParseMsg)>>)) @@
        (K_suggested_fixes :> JList(<<JStr(RegenerateMsg)>>)))

Positions(text, c) == {i \in 1..Len(text) : text[i] = c}

HasBracePair(text) ==
  \E i \in Positions(text, "{") : \E j \in Positions(text, "}") : i < j

\* from the first "{" to the last "}", both included
OuterSpan(text) ==
  SubSeq(text, SetMin(Positions(text, "{")), SetMax(Positions(text, "}")))

\* C7: a raw text with no "{" ... "}" pair, or whose outermost brace span is
\* not valid JSON, parses to exactly the fallback record, and so does the
\* fallback's own issue string.
C7_Fallback ==
  pc = "parsed" =>
    /\ (~HasBracePair(raw) \/ json_loads(OuterSpan(raw)).raised) =>
         parsed = C7_FallbackRecord
    /\ raw = CouldNotParseMsg => parsed = C7_FallbackRecord

\* braces around something that is not JSON
C7_Witness ==
  /\ pc = "parsed"
  /\ raw = <<"1">> \o BodyTrailingComma \o <<"}">>
  /\ HasBracePair(raw)
  /\ parsed = C7_FallbackRecord

----------------------------------------------------------------------------
(* C8 *)

\* C8: when raw = prefix + object + suffix, the object a valid JSON object,
\* no "{" in the prefix and no "}" in the suffix, the parser returns what
\* parsing the object alone returns.
C8_OuterSpanParsed ==
  pc = "parsed" =>
    \A i \in Positions(raw, "{") : \A j \in Positions(raw, "}") :
      ( /\ i < j
        /\ Positions(SubSeq(raw, 1, i - 1), "{") = {}
        /\ Positions(SubSeq(raw, j + 1, Len(raw)), "}") = {}
        /\ ~json_loads(SubSeq(raw, i, j)).raised ) =>
      /\ parsed = json_loads(SubSeq(raw, i, j)).val
      /\ parsed.t = "dict"

\* commentary around an object that holds an object
C8_Witness ==
  /\ pc = "parsed"
  /\ raw = <<"1", " ">> \o BodyNested \o <<" ", "{">>
  /\ parsed = JDict(K_a :> JDict(K_a :> JInt(1)))

----------------------------------------------------------------------------
(* C11 *)

\* the request line has been read
RequestRead == pc # "main"

\* C11 as stated: once the request line is read and is empty after
\* trimming, the session makes no gateway call.  Fails: main neither trims
\* nor tests the request line.
C11_Original ==
  (RequestRead /\ strip(user_request) = <<>>) => calls = <<>>

----------------------------------------------------------------------------
(* C12 *)

\* positions of the gateway calls that failed
FailedCalls == {i \in 1..Len(calls) : ~calls[i].ok}

\* what main printed, by kind
Reports(kind) == SelectSeq(out, LAMBDA e : e.kind = kind)

\* the failure happened before story_pipeline returned
FailedInPipeline == \A j \in 1..Len(calls) : calls[j].op # "rewrite"

\* C12: a failed gateway call (draft, evaluate, revise or rewrite) is the
\* last call of the session: the run is over with the failure propagated,
\* no step follows it, no final report is printed, and when it happened
\* inside story_pipeline no (story, evaluation) pair was returned to main or
\* reported; every pair that was reported had been evaluated before the
\* failure.
C12_GatewayFailureFatal ==
  /\ [](\A i \in FailedCalls :
          /\ i = Len(calls)
          /\ pc = "raised"
          /\ error = "gateway"
          /\ Reports("final") = <<>>
          /\ FailedInPipeline => (Reports("story") = <<>> /\ current_story = 0)
          /\ \A k \in 1..Len(out) :
               out[k].kind \in {"story", "updated"} =>
                 (out[k].story + 1 < i /\ calls[out[k].story + 1].ok))
  /\ [][FailedCalls = {}]_vars

\* the rewrite of an accepted feedback line failed
C12_Witness ==
  /\ FailedCalls = {Len(calls)}
  /\ LastCall.op = "rewrite"
  /\ pc = "raised"
  /\ Len(Reports("story")) = 1

----------------------------------------------------------------------------
(* C13 *)

\* the evaluation in hand has no total_score key
NoTotalScore(data) == K_total_score \notin DOMAIN data.v

\* C13 as stated: whatever record the parser returned, no consumer fails on
\* a missing or malformed field, and a record without total_score is gated
\* as score 0.  Fails: a default is read only for an absent key; a key that
\* is present with a value of the wrong type (total_score null, issues
\* holding a number) makes the loop test or the report raise TypeError.
C13_Original ==
  /\ error # "TypeError"
  /\ (pc = "returned" /\ NoTotalScore(judge_data)) =>
       (0 >= min_score \/ round_idx >= max_rounds)

----------------------------------------------------------------------------
(* C14 *)

\* the entries of a list field of an evaluation, none when the key is absent
Entries(e, key) == IF key \in DOMAIN e.v THEN e.v[key].v ELSE <<>>

\* the field is absent or a list of strings
ListOfStrings(e, key) ==
  key \in DOMAIN e.v =>
    /\ e.v[key].t = "list"
    /\ \A k \in 1..Len(e.v[key].v) : e.v[key].v[k].t = "str"

\* a text cut at its line breaks
RECURSIVE SplitLines(_)
SplitLines(text) ==
  IF Positions(text, "\n") = {} THEN <<text>>
  ELSE LET i == SetMin(Positions(text, "\n"))
       IN  <<SubSeq(text, 1, i - 1)>> \o SplitLines(SubSeq(text, i + 1, Len(text)))

\* block is one "- <item>" line per entry, in order, or the placeholder
FlattenedAs(block, entries, placeholder) ==
  IF entries = <<>> THEN block = placeholder
  ELSE /\ Len(SplitLines(block)) = Len(entries)
       /\ \A k \in 1..Len(entries) :
            SplitLines(block)[k] = <<"-", " ">> \o entries[k].v

\* C14: every revise_story call carries, for the evaluation it was given
\* (its list fields lists of strings, or absent), an issues block of one
\* "- <item>" line per entry of issues in order, "- (no issues listed)" for
\* an empty or absent list, and a fixes block made the same way from
\* suggested_fixes with "- (no fixes listed)".
C14_Flattening ==
  \A i \in 2..Len(calls) :
    calls[i].op = "revise" =>
      LET e == EvaluationOf(calls[i - 1])
      IN  (ListOfStrings(e, K_issues) /\ ListOfStrings(e, K_suggested_fixes)) =>
            /\ Len(calls[i].arg) = 2
            /\ FlattenedAs(calls[i].arg[1], Entries(e, K_issues), NoIssuesListed)
            /\ FlattenedAs(calls[i].arg[2], Entries(e, K_suggested_fixes),
                           NoFixesListed)

\* suggested_fixes = [] with issues = ["too long"], then a list of two
\* issues with suggested_fixes absent
C14_Witness ==
  /\ Len(calls) >= 5
  /\ calls[2].reply = Reply20
  /\ calls[3].op = "revise"
  /\ calls[3].arg = << <<"-", " ">> \o TooLong, NoFixesListed >>
  /\ calls[4].reply = Reply30Issues
  /\ calls[5].op = "revise"
  /\ calls[5].arg = << <<"-", " ">> \o TooLong \o <<"\n", "-", " ">> \o Scary,
                       NoFixesListed >>

----------------------------------------------------------------------------
(* C15 *)

\* where a judge_story call is about to be made
JudgeSteps == {"judge_draft", "judge_revision", "judge_updated"}

\* the replies with no "{" ... "}" pair or whose outer span is not JSON
UnparsableReplies ==
  {r \in JudgeReplies : ~HasBracePair(r) \/ json_loads(OuterSpan(r)).raised}

\* what one judge_story step does
C15_Step ==
  pc \in JudgeSteps =>
    /\ calls' = Append(calls, calls'[Len(calls')])
    /\ calls'[Len(calls')].op = "judge"
    /\ calls'[Len(calls')].story =
         (IF pc = "judge_updated" THEN updated_story ELSE story)
    /\ calls'[Len(calls')].ok =>
         LET data == IF pc = "judge_updated" THEN updated_judge_data'
                     ELSE judge_data'
         IN  /\ pc' = (IF pc = "judge_updated" THEN "update" ELSE "loop")
             /\ error' = error
             /\ data.t = "dict"
             /\ calls'[Len(calls')].reply \in UnparsableReplies =>
                  data = C7_FallbackRecord

\* C15: each judge_story call makes exactly one gateway call, for the story
\* it was given, and when that call returns, whatever its text, the judge
\* step ends with a record in hand and the run goes on: an unparsable reply
\* gives the fallback record, raises nothing and is not asked for again.
C15_OneCallOneRecord == [][C15_Step]_vars

\* a revision's evaluation came back as prose
C15_Witness ==
  /\ pc = "loop"
  /\ Len(calls) = 4
  /\ LastCall.op = "judge"
  /\ LastCall.ok
  /\ LastCall.reply = ReplySorry
  /\ judge_data = C7_FallbackRecord

----------------------------------------------------------------------------
(* C16 *)

\* C16: for every min_score, every max_rounds and every sequence of
\* evaluation replies, passing or never passing, a run of story_pipeline in
\* which every gateway call returns a reply and whose total_score values the
\* loop test can compare eventually returns its (story, evaluation) pair.
C16_Termination ==
  <>(pc = "returned" \/ FailedCalls # {} \/ error = "TypeError")

\* returned at the round cap after scores that never reached min_score
C16_Witness ==
  /\ pc = "returned"
  /\ FailedCalls = {}
  /\ min_score = 40
  /\ max_rounds = MaxRoundsBound
  /\ round_idx = max_rounds
  /\ Len(EvalSeq) = max_rounds
  /\ PassingRounds = {}

----------------------------------------------------------------------------
(* C17 *)

\* story_pipeline with its printing left out, run again over the gateway
\* outcomes the log holds: where it stands before the first call
QuietStart ==
  [pc |-> "draft", story |-> 0, data |-> JNone, n |-> 0, valid |-> TRUE]

\* the loop test and what follows it without a gateway call
QuietTest(st) ==
  IF ~Comparable(st.data) THEN [st EXCEPT !.pc = "raised"]
  ELSE IF GateScore(st.data) < min_score /\ st.n < max_rounds
         THEN IF revise_prompt(st.data).raised
                THEN [st EXCEPT !.pc = "raised", !.n = st.n + 1]
                ELSE [st EXCEPT !.pc = "revise"]
         ELSE [st EXCEPT !.pc = "returned"]

\* the call the quiet run makes at st, compared with the k-th logged call,
\* and where the quiet run stands once that call's outcome is in
QuietCall(st, k) ==
  LET c == calls[k]
      failed == [st EXCEPT !.pc = "raised"]
  IN  CASE st.pc = "draft" ->
             LET same == c.op = "draft" /\ c.story = 0 /\ c.arg = <<user_request>>
             IN  IF c.ok
                   THEN [st EXCEPT !.pc = "judge_draft", !.story = k,
                                   !.valid = st.valid /\ same]
                   ELSE [failed EXCEPT !.valid = st.valid /\ same]
        [] st.pc \in {"judge_draft", "judge_revision"} ->
             LET same == c.op = "judge" /\ c.story = st.story /\ c.arg = <<>>
             IN  IF c.ok
                   THEN [st EXCEPT !.pc = "loop", !.data = EvaluationOf(c),
                                   !.n = IF st.pc = "judge_draft" THEN 1 ELSE st.n,
                                   !.valid = st.valid /\ same]
                   ELSE [failed EXCEPT !.valid = st.valid /\ same]
        [] st.pc = "loop" ->
             LET same == /\ QuietTest(st).pc = "revise"
                         /\ c.op = "revise"
                         /\ c.story = st.story
                         /\ c.arg = <<revise_prompt(st.data).issues,
                                      revise_prompt(st.data).fixes>>
             IN  IF c.ok
                   THEN [st EXCEPT !.pc = "judge_revision", !.story = k,
                                   !.n = st.n + 1, !.valid = st.valid /\ same]
                   ELSE [failed EXCEPT !.n = st.n + 1, !.valid = st.valid /\ same]
        [] OTHER -> [st EXCEPT !.valid = FALSE]

\* the quiet run after the calls k .. Len(calls)
RECURSIVE QuietRun(_, _)
QuietRun(st, k) ==
  IF k > Len(calls) THEN st ELSE QuietRun(QuietCall(st, k), k + 1)

\* C17: the gateway calls a run of story_pipeline makes, their arguments,
\* and the story, evaluation and round counter it holds are those of the
\* quiet run (which reads neither verbose nor what was printed) over the
\* same request, min_score, max_rounds and gateway outcomes; so a run with
\* verbose=True and one with verbose=False make the same calls and return
\* the same pair.
C17_VerboseIrrelevant ==
  LET q == QuietRun(QuietStart, 1)
      now == IF q.pc = "loop" /\ pc # "loop" THEN QuietTest(q) ELSE q
  IN  /\ q.valid
      /\ pc = now.pc
      /\ story = now.story
      /\ judge_data = now.data
      /\ round_idx = now.n

\* a run that printed nothing returned after two revisions
C17_Witness ==
  /\ ~verbose
  /\ out = <<>>
  /\ pc = "returned"
  /\ Len(ReviseSeq) = 2
  /\ Len(calls) = 6

----------------------------------------------------------------------------
(* C18 *)

SubScoreKeys ==
  {K_clarity, K_age_appropriateness, K_emotional_safety, K_creativity,
   K_narrative_structure}

\* records with the total_score (and everything else) of data and other
\* sub-scores: none at all, all five 0, all five 50
SubScoreVariants(data) ==
  {JDict([k \in DOMAIN data.v \ SubScoreKeys |-> data.v[k]])} \cup
  {JDict([k \in DOMAIN data.v \cup SubScoreKeys |->
            IF k \in SubScoreKeys THEN JInt(n) ELSE data.v[k]]) : n \in {0, 50}}

\* what the loop does at its test, against what its test says of a variant
C18_Step ==
  pc = "loop" =>
    \A d \in SubScoreVariants(judge_data) :
      /\ gate(d, min_score) = gate(judge_data, min_score)
      /\ (round_idx' = round_idx + 1) <=>
           ContinueLoop(d, min_score, round_idx, max_rounds)
      /\ (pc' = "returned") <=>
           (~gate(d, min_score).raised /\
            ~ContinueLoop(d, min_score, round_idx, max_rounds))

\* C18: at the loop test, the stop/continue decision taken for the
\* evaluation in hand is the one the test gives for every record with the
\* same total_score and other sub-scores (absent, all 0, all 50, so sums
\* that differ from total_score): the sub-scores are not read.
C18_TotalScoreVerbatim == [][C18_Step]_vars

\* total_score 30 passed min_score 30 though the only sub-score is 9
C18_Witness ==
  /\ pc = "returned"
  /\ min_score = 30
  /\ round_idx < max_rounds
  /\ LastCall.reply = Reply30
  /\ judge_data.v[K_clarity] = JInt(9)
  /\ judge_data.v[K_total_score] = JInt(30)

----------------------------------------------------------------------------
(* C19 *)

\* the two blocks revise_story makes of the evaluation parsed from each reply
RevisionBlocks ==
  [r \in JudgeReplies |->
     <<revise_prompt(ParsedReply[r]).issues, revise_prompt(ParsedReply[r]).fixes>>]

\* C19: every revise and every rewrite call is given the story returned by
\* the latest draft, revise or rewrite call before it; every revise call
\* comes right after the evaluation of that very story and carries that
\* evaluation's issues and fixes; the first rewrite is given the story that
\* story_pipeline returned and main showed; and the story in hand is always
\* one a gateway call returned whole.
C19_StoryChaining ==
  LET produced == StoryCalls
      rewrites == {i \in 1..Len(calls) : calls[i].op = "rewrite"}
  IN  /\ \A i \in 1..Len(calls) :
           calls[i].op \in {"revise", "rewrite"} =>
             /\ \E j \in produced : j < i
             /\ calls[i].story = SetMax({j \in produced : j < i})
             /\ calls[i].op = "revise" =>
                  /\ calls[i - 1].op = "judge"
                  /\ calls[i - 1].ok
                  /\ calls[i - 1].story = calls[i].story
                  /\ calls[i].arg = RevisionBlocks[calls[i - 1].reply]
      /\ rewrites # {} =>
           /\ calls[SetMin(rewrites)].story = story
           /\ Len(Reports("story")) = 1
           /\ Reports("story")[1].story = story
      /\ story \in produced \cup {0}
      /\ current_story \in produced \cup {0}

\* a revision, then two rewrites, each from the story before it; the
\* revision was given the evaluation of the draft, not a later one
C19_Witness ==
  /\ Len(calls) >= 7
  /\ calls[3].op = "revise"
  /\ calls[2].reply = Reply25
  /\ calls[4].reply = Reply44
  /\ calls[5].op = "rewrite"
  /\ calls[5].story = 3
  /\ calls[7].op = "rewrite"
  /\ calls[7].story = 5

====
